---- MODULE Spec2Model ----
(***************************************************************************)
(* Model of the kidney-segmentation backend: the frame pipeline of         *)
(* ModelService (backend/model_service.py), the codec helpers              *)
(* (backend/utils.py) and the HTTP / WebSocket handlers (backend/main.py). *)
(*                                                                         *)
(* Arrays.  A numpy array is modelled by its shape and by the sample       *)
(* vector of one pixel: [shape |-> <<H,W>> or <<H,W,C>>, px |-> <<..>>],   *)
(* px of length 1 for a 2D array and of length C for a 3D one.  Every      *)
(* pixel of a modelled array carries the same samples (a constant-colour   *)
(* image), so that resizing keeps px and only changes the shape.           *)
(*                                                                         *)
(* Calls that may raise return [ok |-> TRUE, val |-> v] or                 *)
(* [ok |-> FALSE, err |-> e].                                              *)
(***************************************************************************)
EXTENDS Integers, Sequences, FiniteSets, TLC

VARIABLES
    model_service,       \* main.py global: "None" or "loaded"
    pc,                  \* per session: position of websocket_endpoint
    frame_count,         \* per session: the local frame_count
    outbox,              \* per session: the response a pending send_text carries
    sent,                \* per session: responses delivered to the client
    received,            \* per session: messages receive_text has returned
    active_connections,  \* manager.active_connections
    http,                \* the last response of POST /upload-image
    reading,             \* the upload suspended in file.read(), if any
    exit_exception,      \* per session: the exception that left the receive loop
    pin,                 \* input of the pure-function specification
    pout,                \* last call made by the pure-function specification
    startup,             \* the startup hook: "pending", "complete" or "failed"
    health,              \* the last response of GET /health
    model_input          \* the tensor the last request handed to self.model

vars == <<model_service, pc, frame_count, outbox, sent, received,
          active_connections, http, reading, exit_exception, pin, pout,
          startup, health, model_input>>

-----------------------------------------------------------------------------
(* Bounds of the model *)

NumSessions == 2
MaxFrames == 3
MaxConcFrames == 1
MaxSmall == 2
MaxChannels == 4
MaxTime == 2

(* Program constants *)

image_height == 560
image_width == 690

-----------------------------------------------------------------------------
(* Results of calls that may raise *)

Ok(v) == [ok |-> TRUE, val |-> v]

Raise(e) == [ok |-> FALSE, err |-> e]

-----------------------------------------------------------------------------
(* Arrays and the inputs drawn by the specifications *)

Heights == (1..MaxSmall) \cup {image_height, image_height + 1}

Widths == (1..MaxSmall) \cup {image_width, image_width + 1}

\* Sample vectors of a pixel with c samples: white, and a ramp whose first
\* and last samples differ.
PxSamples(c) == { [i \in 1..c |-> 255], [i \in 1..c |-> 50 * i] }

Arrays2D == { [shape |-> <<h, w>>, px |-> p] :
                h \in Heights, w \in Widths, p \in PxSamples(1) }

Arrays3D(c) == { [shape |-> <<h, w, c>>, px |-> p] :
                   h \in Heights, w \in Widths, p \in PxSamples(c) }

Images == Arrays2D \cup UNION { Arrays3D(c) : c \in 1..MaxChannels }

Ndim(a) == Len(a.shape)

Reverse3(p) == <<p[3], p[2], p[1]>>

\* cv2.cvtColor(a, COLOR_BGR2RGB) and cv2.cvtColor(a, COLOR_RGB2BGR): the
\* same permutation; the source must have 3 or 4 channels, the result has 3.
cvtColor_swap(a) ==
    IF Ndim(a) = 3 /\ a.shape[3] \in {3, 4}
    THEN Ok([shape |-> <<a.shape[1], a.shape[2], 3>>, px |-> Reverse3(a.px)])
    ELSE Raise("cv2.error")

\* cv2.cvtColor(a, COLOR_BGR2GRAY): fixed-point luma of a B,G,R pixel.
cvtColor_gray(a) ==
    IF Ndim(a) = 3 /\ a.shape[3] \in {3, 4}
    THEN Ok([shape |-> <<a.shape[1], a.shape[2]>>,
             px |-> << (a.px[1] * 1868 + a.px[2] * 9617 + a.px[3] * 4899 + 8192)
                         \div 16384 >>])
    ELSE Raise("cv2.error")

\* PIL.Image.fromarray of a uint8 array: mode by the number of channels;
\* a third dimension of 1 (or more than 4) is no PIL mode.
Image_fromarray(a) ==
    IF Ndim(a) = 2 THEN Ok([mode |-> "L", bands |-> 1, shape |-> a.shape, px |-> a.px])
    ELSE IF Ndim(a) = 3 /\ a.shape[3] = 2
        THEN Ok([mode |-> "LA", bands |-> 2, shape |-> a.shape, px |-> a.px])
    ELSE IF Ndim(a) = 3 /\ a.shape[3] = 3
        THEN Ok([mode |-> "RGB", bands |-> 3, shape |-> a.shape, px |-> a.px])
    ELSE IF Ndim(a) = 3 /\ a.shape[3] = 4
        THEN Ok([mode |-> "RGBA", bands |-> 4, shape |-> a.shape, px |-> a.px])
    ELSE Raise("TypeError")

\* np.array(pil_image)
np_array(pil) == [shape |-> pil.shape, px |-> pil.px]

-----------------------------------------------------------------------------
(* ModelService: preprocessing *)

\* self.transform: Resize((560, 690)), ToTensor(), Normalize(mean, std) with
\* three means.  ToTensor gives a (bands, 560, 690) tensor; Normalize
\* subtracts a (3,1,1) mean in place, which only a 3-channel tensor admits.
\* Tensor samples are kept as numerators over 255.
transform(pil) ==
    LET resized == [pil EXCEPT !.shape = <<image_height, image_width>>]
        tensor  == [shape |-> <<pil.bands, resized.shape[1], resized.shape[2]>>,
                    px |-> pil.px]
    IN  IF tensor.shape[1] = 3 THEN Ok(tensor) ELSE Raise("RuntimeError")

unsqueeze0(t) == [t EXCEPT !.shape = <<1>> \o t.shape]

preprocess_image(image) ==
    LET image_rgb == IF Ndim(image) = 3 /\ image.shape[3] = 3
                     THEN cvtColor_swap(image)
                     ELSE Ok(image)
    IN  IF ~image_rgb.ok THEN image_rgb
        ELSE LET pil == Image_fromarray(image_rgb.val)
             IN  IF ~pil.ok THEN pil
                 ELSE LET tensor == transform(pil.val)
                      IN  IF ~tensor.ok THEN tensor
                          ELSE Ok(unsqueeze0(tensor.val))

-----------------------------------------------------------------------------
(* Inference engine (model.UNET; its source is not part of src/) *)

\* Sample raw scores, and torch.sigmoid at those scores in thousandths
\* (float32 saturates to 0.0 and 1.0 at -100 and 100).
Scores == {-100, -1, 0, 1, 100}

torch_sigmoid(x) ==
    CASE x = -100 -> 0
      [] x = -1   -> 269
      [] x = 0    -> 500
      [] x = 1    -> 731
      [] x = 100  -> 1000

\* self.model(input_tensor): a (1,3,H0,W0) tensor gives a (1,1,H0,W0) score
\* map; any other input shape is a contract violation and raises.
UNET_forward(tensor, score) ==
    IF tensor.shape = <<1, 3, image_height, image_width>>
    THEN Ok([shape |-> <<1, 1, image_height, image_width>>, score |-> score])
    ELSE Raise("RuntimeError")

ScoreMaps == { [shape |-> <<1, 1, image_height, image_width>>, score |-> x] : x \in Scores }

-----------------------------------------------------------------------------
(* ModelService: postprocessing and overlay *)

\* ndarray.squeeze(): drops every dimension of size 1
squeeze(shape) == SelectSeq(shape, LAMBDA d : d # 1)

\* tuple[:2]
Prefix2(shape) == SubSeq(shape, 1, IF Len(shape) < 2 THEN Len(shape) ELSE 2)

\* cv2.resize(a, (width, height)): the result has height rows and width
\* columns; an empty target raises.
cv2_resize(a, width, height) ==
    IF width < 1 \/ height < 1 \/ Ndim(a) \notin {2, 3} THEN Raise("cv2.error")
    ELSE Ok([a EXCEPT !.shape = <<height, width>> \o SubSeq(a.shape, 3, Len(a.shape))])

postprocess_output_transposed(output, original_shape) ==
    LET mask == [shape |-> squeeze(output.shape),
                 px |-> << ((torch_sigmoid(output.score) * 255) \div 1000) % 256 >>]
    IN  IF Prefix2(original_shape) # mask.shape
        THEN cv2_resize(mask, original_shape[1], original_shape[2])
        ELSE Ok(mask)

postprocess_output(output, original_shape) ==
    LET mask == [shape |-> squeeze(output.shape),
                 px |-> << ((torch_sigmoid(output.score) * 255) \div 1000) % 256 >>]
    IN  IF Prefix2(original_shape) # mask.shape
        THEN cv2_resize(mask, original_shape[2], original_shape[1])
        ELSE Ok(mask)

\* numpy broadcasting of a 2D value onto a (H, W) target of an assignment
Broadcastable(value_shape, h, w) ==
    /\ Len(value_shape) = 2
    /\ value_shape[1] \in {1, h}
    /\ value_shape[2] \in {1, w}

\* cv2.addWeighted(src1, 0.5, src2, 0.5, 0) on one uint8 sample: the mean of
\* the two samples, rounded half to even and saturated.
addWeighted_half(a, b) ==
    LET q == (a + b) \div 2
        r == IF (a + b) % 2 = 0 \/ q % 2 = 0 THEN q ELSE q + 1
    IN  IF r > 255 THEN 255 ELSE r

overlay_mask(image, mask) ==
    LET gray == IF Ndim(mask) = 3 THEN cvtColor_gray(mask) ELSE Ok(mask)
    IN  IF ~gray.ok THEN gray
        ELSE IF Ndim(image) # 3 \/ image.shape[3] < 2 THEN Raise("IndexError")
        ELSE IF ~Broadcastable(gray.val.shape, image.shape[1], image.shape[2])
            THEN Raise("ValueError")
        ELSE LET mask_colored == [i \in 1..image.shape[3] |->
                                    IF i = 2 THEN gray.val.px[1] ELSE 0]
             IN  Ok([shape |-> image.shape,
                     px |-> [i \in 1..image.shape[3] |->
                               addWeighted_half(image.px[i], mask_colored[i])]])

-----------------------------------------------------------------------------
(* ModelService.process_image *)

\* What the run of one frame depends on besides the image: the score the
\* engine produces, the wall-clock time the run takes, and a run-time
\* failure (allocation, device) raised under one of the stages.
Faults == {"none", "preprocess", "inference", "postprocess", "overlay"}

Envs == [fault : Faults, score : Scores, elapsed : 1..MaxTime]

\* The outcome of a stage: the run-time failure when it strikes this stage,
\* otherwise what the stage's code does on its data.
Stage(name, res, env) == IF env.fault = name THEN Raise("MemoryError") ELSE res

AllStages == <<"preprocess", "inference", "postprocess", "overlay">>

\* stages: the stages entered, in order; input_tensor: the tensor handed to
\* self.model, once the run got that far (records of the run, not values
\* the code returns).
process_image_partial(image, env) ==
    LET original_shape == image.shape
        input_tensor == Stage("preprocess", preprocess_image(image), env)
    IN  IF ~input_tensor.ok
        THEN [ok |-> FALSE, err |-> input_tensor.err, stages |-> SubSeq(AllStages, 1, 1)]
        ELSE
    LET output == Stage("inference", UNET_forward(input_tensor.val, env.score), env)
    IN  IF ~output.ok
        THEN [ok |-> FALSE, err |-> output.err, stages |-> SubSeq(AllStages, 1, 2),
              input_tensor |-> input_tensor.val]
        ELSE
    LET mask == Stage("postprocess", postprocess_output(output.val, original_shape), env)
    IN  IF ~mask.ok
        THEN [ok |-> FALSE, err |-> mask.err, stages |-> SubSeq(AllStages, 1, 3),
              input_tensor |-> input_tensor.val]
        ELSE
    LET overlay == Stage("overlay", overlay_mask(image, mask.val), env)
    IN  IF ~overlay.ok
        THEN [ok |-> TRUE, val |-> [mask |-> mask.val], stages |-> AllStages,
              input_tensor |-> input_tensor.val]
        ELSE [ok |-> TRUE,
              val |-> [mask |-> mask.val, overlay |-> overlay.val,
                       processing_time |-> env.elapsed],
              stages |-> AllStages,
              input_tensor |-> input_tensor.val]

process_image(image, env) ==
    LET original_shape == image.shape
        input_tensor == Stage("preprocess", preprocess_image(image), env)
    IN  IF ~input_tensor.ok
        THEN [ok |-> FALSE, err |-> input_tensor.err, stages |-> SubSeq(AllStages, 1, 1)]
        ELSE
    LET output == Stage("inference", UNET_forward(input_tensor.val, env.score), env)
    IN  IF ~output.ok
        THEN [ok |-> FALSE, err |-> output.err, stages |-> SubSeq(AllStages, 1, 2),
              input_tensor |-> input_tensor.val]
        ELSE
    LET mask == Stage("postprocess", postprocess_output(output.val, original_shape), env)
    IN  IF ~mask.ok
        THEN [ok |-> FALSE, err |-> mask.err, stages |-> SubSeq(AllStages, 1, 3),
              input_tensor |-> input_tensor.val]
        ELSE
    LET overlay == Stage("overlay", overlay_mask(image, mask.val), env)
    IN  IF ~overlay.ok
        THEN [ok |-> FALSE, err |-> overlay.err, stages |-> AllStages,
              input_tensor |-> input_tensor.val]
        ELSE [ok |-> TRUE,
              val |-> [mask |-> mask.val, overlay |-> overlay.val,
                       processing_time |-> env.elapsed],
              stages |-> AllStages,
              input_tensor |-> input_tensor.val]

-----------------------------------------------------------------------------
(* utils.py: the codec adapter *)

\* A byte buffer (or its base64 text) is either no image at all or a PNG,
\* which stores exactly the array PIL holds: [valid |-> FALSE] or
\* [valid |-> TRUE, png |-> array].  The samples of a 3-channel PNG are in
\* R,G,B order: that is what a client reads back.
NotAnImage == [valid |-> FALSE]

png_save(pil) == [valid |-> TRUE, png |-> [shape |-> pil.shape, px |-> pil.px]]

\* PIL.Image.open(io.BytesIO(bytes))
Image_open(bytes) ==
    IF bytes.valid THEN Image_fromarray(bytes.png) ELSE Raise("UnidentifiedImageError")

\* A base64 text: the bytes it encodes, behind a data-URL prefix or not.
NoPrefix == ""

PngDataUrl == "data:image/png;base64,"

JpegDataUrl == "data:image/jpeg;base64,"

Prefixes == {NoPrefix, PngDataUrl, JpegDataUrl}

b64encode(bytes) == [prefix |-> NoPrefix, body |-> bytes]

\* base64.b64decode(text), which drops the characters outside the alphabet:
\* the 19 alphabet characters of the png prefix break the padding of the
\* payload (binascii.Error); the 20 of the jpeg prefix decode to 15 bytes in
\* front of the payload's, which are no image.
b64decode(text) ==
    CASE text.prefix = NoPrefix    -> Ok(text.body)
      [] text.prefix = PngDataUrl  -> Raise("binascii.Error")
      [] text.prefix = JpegDataUrl -> Ok(NotAnImage)

encode_image_to_base64(image) ==
    IF Ndim(image) = 3
    THEN LET image_rgb == cvtColor_swap(image)
         IN  IF ~image_rgb.ok THEN image_rgb
             ELSE LET pil_image == Image_fromarray(image_rgb.val)
                  IN  IF ~pil_image.ok THEN pil_image
                      ELSE Ok(b64encode(png_save(pil_image.val)))
    ELSE LET pil_image == Image_fromarray(image)
         IN  IF ~pil_image.ok THEN pil_image
                      ELSE Ok(b64encode(png_save(pil_image.val)))

decode_base64_to_image(base64_string) ==
    LET img_data == b64decode(base64_string)
    IN  IF ~img_data.ok THEN img_data
        ELSE
    LET pil_image == Image_open(img_data.val)
    IN  IF ~pil_image.ok THEN pil_image
        ELSE LET image_np == np_array(pil_image.val)
             IN  IF Ndim(image_np) = 3 /\ image_np.shape[3] = 3
                 THEN cvtColor_swap(image_np)
                 ELSE Ok(image_np)

-----------------------------------------------------------------------------
(* main.py: the process-wide model service *)

None == [obj |-> "None"]

\* ModelService(): a constructed service always holds its model (a failed
\* load raises out of the constructor).
ModelService == [obj |-> "ModelService", model |-> [obj |-> "UNET"]]

\* ModelService.__init__: self.model = None, then _load_model() builds the
\* network and reads the checkpoint (an absent checkpoint file is only a
\* warning).  Whatever _load_model raises leaves the constructor.
ModelService_init(load_fails) ==
    IF load_fails THEN Raise("RuntimeError") ELSE Ok(ModelService)

\* GET /health answering model_loaded true whatever the global holds
health_check_always(service) ==
    [status |-> "healthy", model_loaded |-> TRUE]

\* GET /health
health_check(service) ==
    [status |-> "healthy",
     model_loaded |-> service # None /\ service.model # None]

\* The tensor a run handed to self.model, if it did
NoTensor == [fed |-> FALSE]

Fed(result) ==
    IF "input_tensor" \in DOMAIN result
    THEN [fed |-> TRUE, tensor |-> result.input_tensor]
    ELSE NoTensor

\* model_service.process_image(image): an AttributeError on None
call_process_image(service, image, env) ==
    IF service = None
    THEN [ok |-> FALSE, err |-> "AttributeError", stages |-> <<>>]
    ELSE process_image(image, env)

-----------------------------------------------------------------------------
(* main.py: POST /upload-image *)

\* An uploaded part: its Content-Type header (absent, or a string) and bytes.
NoContentType == [present |-> FALSE]

ContentType(v) == [present |-> TRUE, value |-> v]

\* str.startswith('image/') on the content types the model draws
startswith_image(v) == v \in {"image/png", "image/jpeg"}

\* invoked: whether model_service.process_image was called; model_input:
\* the tensor that call handed to self.model (records of the run, not part
\* of the response).
JSONResponse(code, content, invoked) ==
    [status_code |-> code, content |-> content, invoked |-> invoked,
     model_input |-> NoTensor]

\* The response of a request that called process_image
ResponseAfterRun(code, content, result) ==
    [status_code |-> code, content |-> content, invoked |-> TRUE,
     model_input |-> Fed(result)]

\* Lines 78-97: the checks made before the handler awaits file.read().  Either
\* the response it returns at once, or nothing yet.
upload_image_before_read(file, service) ==
    IF ~file.content_type.present
    THEN [done |-> TRUE,
          response |-> JSONResponse(500, [success |-> FALSE,
                                          error |-> "Unexpected error: AttributeError"], FALSE)]
    ELSE IF ~startswith_image(file.content_type.value)
    THEN [done |-> TRUE,
          response |-> JSONResponse(400, [success |-> FALSE,
                                          error |-> "File must be an image"], FALSE)]
    ELSE IF service = None
    THEN [done |-> TRUE,
          response |-> JSONResponse(500, [success |-> FALSE,
                                          error |-> "Model service not available"], FALSE)]
    ELSE [done |-> FALSE]

\* Lines 97-129: the handler once file.read() has returned the bytes.
\* service is the global as line 114 reads it.
upload_image_after_read(file, service, env) ==
    LET image == Image_open(file.contents)
    IN  IF ~image.ok
        THEN JSONResponse(400, [success |-> FALSE, error |-> "Invalid image file"], FALSE)
        ELSE
    LET image_np == np_array(image.val)
        result == call_process_image(service, image_np, env)
    IN  IF ~result.ok
        THEN ResponseAfterRun(500, [success |-> FALSE,
                                    error |-> "Model processing failed: " \o result.err],
                              result)
        ELSE
    LET original_image == encode_image_to_base64(image_np)
        segmentation_mask == encode_image_to_base64(result.val.mask)
        overlay == encode_image_to_base64(result.val.overlay)
    IN  IF ~original_image.ok \/ ~segmentation_mask.ok \/ ~overlay.ok
        THEN ResponseAfterRun(500, [success |-> FALSE,
                                    error |-> "Model processing failed: cv2.error"],
                              result)
        ELSE ResponseAfterRun(200, [success |-> TRUE,
                                    original_image |-> original_image.val,
                                    segmentation_mask |-> segmentation_mask.val,
                                    overlay |-> overlay.val],
                              result)

-----------------------------------------------------------------------------
(* main.py: one iteration of the WebSocket loop, from the text received to   *)
(* the response handed to send_text                                          *)

\* JSON values
JNull == [jtype |-> "null"]

JNumber(n) == [jtype |-> "number", n |-> n]

\* an array: [] or a non-empty one
JEmptyArray == [jtype |-> "array", empty |-> TRUE]

JArray == [jtype |-> "array", empty |-> FALSE]

\* a string: empty, or a base64 text
JEmptyString == [jtype |-> "string", empty |-> TRUE]

JString(text) == [jtype |-> "string", empty |-> FALSE, text |-> text]

\* an object: {}, one with other keys than "image", one with "image"
JEmptyObject == [jtype |-> "object", has_image |-> FALSE, empty |-> TRUE]

JObjectNoImage == [jtype |-> "object", has_image |-> FALSE, empty |-> FALSE]

JObject(image) == [jtype |-> "object", has_image |-> TRUE, empty |-> FALSE, image |-> image]

\* The text of a message.  json: whether json.loads returns a value;
\* document: whether the text is a JSON document; raises: what json.loads
\* raises otherwise.
\*   NotJson       text that is no JSON: JSONDecodeError
\*   DeepBrackets  "[" repeated beyond the recursion limit, never closed:
\*                 no JSON either, RecursionError
\*   DeepDocument  a document nested beyond the recursion limit:
\*                 RecursionError
\*   HugeNumber    a document holding an integer of more digits than int()
\*                 converts: a ValueError that is no JSONDecodeError
NotJson == [json |-> FALSE, document |-> FALSE, raises |-> "JSONDecodeError"]

DeepBrackets == [json |-> FALSE, document |-> FALSE, raises |-> "RecursionError"]

DeepDocument == [json |-> FALSE, document |-> TRUE, raises |-> "RecursionError"]

HugeNumber == [json |-> FALSE, document |-> TRUE, raises |-> "ValueError"]

JsonText(v) == [json |-> TRUE, document |-> TRUE, value |-> v]

json_loads(data) == IF data.json THEN Ok(data.value) ELSE Raise(data.raises)

\* dict.get("image")
get_image(d) == IF d.has_image THEN d.image ELSE JNull

\* Python truth value of a JSON value
Truthy(v) ==
    CASE v.jtype = "null"   -> FALSE
      [] v.jtype = "number" -> v.n # 0
      [] v.jtype = "string" -> ~v.empty
      [] v.jtype = "array"  -> ~v.empty
      [] v.jtype = "object" -> ~v.empty

\* image_data.split(',')[1] when image_data.startswith('data:image')
strip_data_url(text) ==
    IF text.prefix # NoPrefix THEN [text EXCEPT !.prefix = NoPrefix] ELSE text

\* model_input: the tensor the iteration handed to self.model (a record of
\* the run, not part of the response).
Send(response) == [act |-> "send", response |-> response, model_input |-> NoTensor]

\* The response of an iteration that called process_image
SendAfterRun(response, result) ==
    [act |-> "send", response |-> response, model_input |-> Fed(result)]

Propagate(e) == [act |-> "raise", err |-> e, model_input |-> NoTensor]

ProcessingFailed(e, n) ==
    [success |-> FALSE, error |-> "Processing failed: " \o e, frame_number |-> n]

\* Lines 161-204: the iteration once the text has parsed to frame_data.
\* frame_data.get raises on a value that is no dict, outside the inner try.
frame_reply_parsed(frame_data, count, service, env) ==
    IF frame_data.jtype # "object"
    THEN Propagate("AttributeError")
    ELSE
    LET image_data == get_image(frame_data)
    IN  IF ~Truthy(image_data)
        THEN Send([success |-> FALSE, error |-> "No image data provided"])
        ELSE IF image_data.jtype # "string"
        THEN Send(ProcessingFailed("AttributeError", count))
        ELSE
    LET image_np == decode_base64_to_image(strip_data_url(image_data.text))
    IN  IF ~image_np.ok
        THEN Send(ProcessingFailed(image_np.err, count))
        ELSE
    LET result == call_process_image(service, image_np.val, env)
    IN  IF ~result.ok
        THEN SendAfterRun(ProcessingFailed(result.err, count), result)
        ELSE
    LET segmentation_mask == encode_image_to_base64(result.val.mask)
        overlay == encode_image_to_base64(result.val.overlay)
    IN  IF ~segmentation_mask.ok
        THEN SendAfterRun(ProcessingFailed(segmentation_mask.err, count), result)
        ELSE IF ~overlay.ok
        THEN SendAfterRun(ProcessingFailed(overlay.err, count), result)
        ELSE SendAfterRun([success |-> TRUE,
                           segmentation_mask |-> segmentation_mask.val,
                           overlay |-> overlay.val,
                           processing_time |-> result.val.processing_time,
                           frame_number |-> count], result)

\* Lines 151-204 with frame_count already incremented: either the response
\* the iteration sends, or the exception that leaves the loop.  Line 153
\* catches json.JSONDecodeError only.
frame_reply(data, count, service, env) ==
    LET frame_data == json_loads(data)
    IN  IF ~frame_data.ok
        THEN IF frame_data.err = "JSONDecodeError"
             THEN Send([success |-> FALSE, error |-> "Invalid JSON data"])
             ELSE Propagate(frame_data.err)
        ELSE frame_reply_parsed(frame_data.val, count, service, env)

-----------------------------------------------------------------------------
(* Inputs of the handlers *)

Sessions == 1..NumSessions

\* The arrays a PNG can hold: 2D, or 3D with 2, 3 or 4 channels
PngImages == { a \in Images : Image_fromarray(a).ok }

\* Images streamed by the clients, ramp pixels: a small grayscale one, a
\* small 3-channel one and a 3-channel one of the model's own size.
ClientImages ==
    { a \in PngImages :
        /\ a.px[1] = 50
        /\ \/ a.shape = <<1, MaxSmall>>
           \/ a.shape = <<1, MaxSmall, 3>>
           \/ a.shape = <<image_height, image_width, 3>> }

Png(a) == [valid |-> TRUE, png |-> a]

\* A frame message {"image": <base64 or data URL of the PNG of a>}
FrameMessage(a, prefix) ==
    JsonText(JObject(JString([prefix |-> prefix, body |-> Png(a)])))

Messages ==
    {NotJson, DeepBrackets, DeepDocument, HugeNumber,
     JsonText(JNull), JsonText(JArray),
     JsonText(JObjectNoImage), JsonText(JObject(JEmptyString)),
     JsonText(JObject(JNumber(5))), JsonText(JObject(JEmptyArray)),
     JsonText(JObject(JArray)), JsonText(JObject(JEmptyObject)),
     JsonText(JObject(JString(b64encode(NotAnImage))))}
    \cup { FrameMessage(a, NoPrefix) : a \in ClientImages }
    \cup { FrameMessage(a, PngDataUrl) : a \in { b \in ClientImages : b.shape = <<1, MaxSmall, 3>> } }

\* The run of a streamed frame: any failing stage, one score, one duration
WsEnvs == { e \in Envs : e.score = 0 /\ e.elapsed = 1 }

GoodFrame == FrameMessage([shape |-> <<1, MaxSmall, 3>>, px |-> <<50, 100, 150>>], NoPrefix)

\* The messages of the concurrent specification
FewMessages == {NotJson, GoodFrame}

\* The exceptions of the concurrent specification: one that is an
\* Exception and one that is not
FewExceptions == {"WebSocketDisconnect", "CancelledError"}

FewEnvs == { e \in WsEnvs : e.fault = "none" }

ContentTypes == {NoContentType, ContentType("image/png"), ContentType("image/jpeg"),
                 ContentType("text/plain"), ContentType("video/mp4")}

\* Uploaded images, ramp pixels: every PNG kind, smaller than the model's
\* size, of that size, and mixed
UploadImages ==
    { a \in PngImages :
        /\ a.px[1] = 50
        /\ a.shape[1] \in {1, image_height}
        /\ a.shape[2] \in {MaxSmall, image_width} }

Uploads == [content_type : ContentTypes,
            contents : {NotAnImage} \cup { Png(a) : a \in UploadImages }]

\* The run of an uploaded image: any failing stage, any score, one duration
UploadEnvs == { e \in Envs : e.elapsed = 1 }

NoResponse == [none |-> TRUE]

NoCall == [fn |-> "none"]

-----------------------------------------------------------------------------
(* State machine *)

SessionInit ==
    /\ pc = [s \in Sessions |-> "idle"]
    /\ frame_count = [s \in Sessions |-> 0]
    /\ outbox = [s \in Sessions |-> NoResponse]
    /\ sent = [s \in Sessions |-> <<>>]
    /\ received = [s \in Sessions |-> <<>>]
    /\ exit_exception = [s \in Sessions |-> "none"]
    /\ active_connections = <<>>
    /\ http = NoResponse
    /\ reading = NoCall
    /\ health = NoResponse
    /\ model_input = NoTensor

Init ==
    /\ model_service = None
    /\ startup = "pending"
    /\ SessionInit
    /\ pin = NoCall
    /\ pout = NoCall

\* startup_event: model_service = ModelService().  A load that fails raises
\* out of the constructor, so the assignment does not happen and the global
\* stays None; the hook logs and raises again.
startup_event(load_fails) ==
    /\ startup = "pending"
    /\ LET service == ModelService_init(load_fails)
       IN  IF service.ok
           THEN /\ model_service' = service.val
                /\ startup' = "complete"
           ELSE /\ model_service' = model_service
                /\ startup' = "failed"
    /\ UNCHANGED <<pc, frame_count, outbox, sent, received, active_connections,
                   http, reading, exit_exception, pin, pout, health, model_input>>

\* One request to GET /health, kept with the state of the startup hook it
\* was served in
Health ==
    /\ health' = [startup |-> startup, reply |-> health_check(model_service)]
    /\ UNCHANGED <<model_service, pc, frame_count, outbox, sent, received,
                   active_connections, http, reading, exit_exception, pin, pout,
                   startup, model_input>>

\* list.remove(x): the first occurrence; a ValueError (list unchanged) when
\* there is none.
list_remove(l, x) ==
    IF \E i \in 1..Len(l) : l[i] = x
    THEN LET i == CHOOSE i \in 1..Len(l) : l[i] = x /\ \A j \in 1..(i - 1) : l[j] # x
         IN  SubSeq(l, 1, i - 1) \o SubSeq(l, i + 1, Len(l))
    ELSE l

\* manager.connect: websocket.accept(), then the append.  A handshake that
\* fails raises out of the endpoint before the list is touched.
WsConnect(s, accepted) ==
    /\ pc[s] = "idle"
    /\ IF accepted
       THEN /\ pc' = [pc EXCEPT ![s] = "receive"]
            /\ active_connections' = Append(active_connections, s)
            /\ exit_exception' = exit_exception
       ELSE /\ pc' = [pc EXCEPT ![s] = "closed"]
            /\ active_connections' = active_connections
            /\ exit_exception' = [exit_exception EXCEPT ![s] = "HandshakeError"]
    /\ frame_count' = [frame_count EXCEPT ![s] = 0]
    /\ UNCHANGED <<model_service, outbox, sent, received, http, reading, pin, pout, startup, health, model_input>>

\* What an await of receive_text or send_text can raise: a signal of the
\* transport, or the cancellation of the endpoint's task
TransportExceptions == {"WebSocketDisconnect", "OSError"}

AwaitExceptions == TransportExceptions \cup {"CancelledError"}

\* isinstance(e, Exception): CancelledError derives from BaseException only
IsException(e) == e # "CancelledError"

\* An exception leaves the receive loop.  The two except clauses of
\* websocket_endpoint (WebSocketDisconnect, Exception) both call
\* manager.disconnect; what is no Exception passes them both and leaves
\* the endpoint with the list untouched.
LeaveLoop(s, e) ==
    /\ pc' = [pc EXCEPT ![s] = "closed"]
    /\ exit_exception' = [exit_exception EXCEPT ![s] = e]
    /\ active_connections' = IF IsException(e)
                             THEN list_remove(active_connections, s)
                             ELSE active_connections

\* WsReceive with frame_count kept in one counter shared by the sessions
WsReceive_shared(s, data, env) ==
    /\ pc[s] = "receive"
    /\ frame_count' = [t \in Sessions |-> frame_count[t] + 1]
    /\ received' = [received EXCEPT ![s] = Append(received[s], data)]
    /\ LET reply == frame_reply(data, frame_count[s] + 1, model_service, env)
       IN  IF reply.act = "send"
           THEN /\ outbox' = [outbox EXCEPT ![s] = reply.response]
                /\ pc' = [pc EXCEPT ![s] = "send"]
                /\ model_input' = reply.model_input
                /\ UNCHANGED <<exit_exception, active_connections>>
           ELSE /\ LeaveLoop(s, reply.err)
                /\ outbox' = outbox
                /\ model_input' = reply.model_input
    /\ UNCHANGED <<model_service, sent, http, reading, pin, pout, startup, health>>

\* receive_text returns a message: lines 147-204 up to the await of send_text
WsReceive(s, data, env) ==
    /\ pc[s] = "receive"
    /\ frame_count' = [frame_count EXCEPT ![s] = frame_count[s] + 1]
    /\ received' = [received EXCEPT ![s] = Append(received[s], data)]
    /\ LET reply == frame_reply(data, frame_count[s] + 1, model_service, env)
       IN  IF reply.act = "send"
           THEN /\ outbox' = [outbox EXCEPT ![s] = reply.response]
                /\ pc' = [pc EXCEPT ![s] = "send"]
                /\ model_input' = reply.model_input
                /\ UNCHANGED <<exit_exception, active_connections>>
           ELSE /\ LeaveLoop(s, reply.err)
                /\ outbox' = outbox
                /\ model_input' = reply.model_input
    /\ UNCHANGED <<model_service, sent, http, reading, pin, pout, startup, health>>

\* send_text completes: the loop goes back to receive_text
WsSend(s) ==
    /\ pc[s] = "send"
    /\ sent' = [sent EXCEPT ![s] = Append(sent[s], outbox[s])]
    /\ outbox' = [outbox EXCEPT ![s] = NoResponse]
    /\ pc' = [pc EXCEPT ![s] = "receive"]
    /\ UNCHANGED <<model_service, frame_count, received, active_connections,
                   http, reading, exit_exception, pin, pout, startup, health, model_input>>

\* send_text raises.  The send of a successful response (line 195) is inside
\* the inner try: its handler (lines 198-204) catches an Exception and awaits
\* the send of the error response, the session staying in its loop.  The
\* other sends (lines 155, 165, 200) are outside it: the exception leaves
\* the loop.
WsSendFail(s, e) ==
    /\ pc[s] = "send"
    /\ IF outbox[s].success /\ IsException(e)
       THEN /\ outbox' = [outbox EXCEPT ![s] = ProcessingFailed(e, frame_count[s])]
            /\ UNCHANGED <<pc, exit_exception, active_connections>>
       ELSE /\ LeaveLoop(s, e)
            /\ outbox' = [outbox EXCEPT ![s] = NoResponse]
    /\ UNCHANGED <<model_service, frame_count, sent, received, http, reading, pin, pout, startup, health, model_input>>

\* receive_text raises
WsReceiveFail(s, e) ==
    /\ pc[s] = "receive"
    /\ LeaveLoop(s, e)
    /\ UNCHANGED <<model_service, frame_count, outbox, sent, received, http, reading, pin, pout, startup, health, model_input>>

\* A request to POST /upload-image arrives: the handler runs up to its
\* await of file.read(), where other requests are served, unless a check
\* answers at once.  One suspended upload is followed at a time.
UploadBegin(file) ==
    /\ LET checks == upload_image_before_read(file, model_service)
       IN  IF checks.done
           THEN /\ http' = [file |-> file, service |-> model_service,
                            reply |-> checks.response]
                /\ model_input' = checks.response.model_input
                /\ reading' = reading
           ELSE /\ reading = NoCall
                /\ reading' = [fn |-> "upload_image", file |-> file,
                               service |-> model_service]
                /\ UNCHANGED <<http, model_input>>
    /\ UNCHANGED <<model_service, pc, frame_count, outbox, sent, received,
                   active_connections, exit_exception, pin, pout, startup, health>>

\* file.read() returns: the rest of the handler, kept with its response
UploadResume(env) ==
    /\ reading # NoCall
    /\ LET reply == upload_image_after_read(reading.file, model_service, env)
       IN  /\ http' = [file |-> reading.file, service |-> reading.service,
                       reply |-> reply]
           /\ model_input' = reply.model_input
    /\ reading' = NoCall
    /\ UNCHANGED <<model_service, pc, frame_count, outbox, sent, received,
                   active_connections, exit_exception, pin, pout, startup, health>>

\* One WebSocket session with every kind of message
Next ==
    \/ \E load_fails \in BOOLEAN : startup_event(load_fails)
    \/ \E accepted \in BOOLEAN : WsConnect(1, accepted)
    \/ \E data \in Messages, env \in WsEnvs :
            frame_count[1] < MaxFrames /\ WsReceive(1, data, env)
    \/ WsSend(1)
    \/ \E e \in AwaitExceptions : WsSendFail(1, e)
    \/ \E e \in AwaitExceptions : WsReceiveFail(1, e)

Spec == Init /\ [][Next]_vars

\* Several sessions of a started server, interleaved at their awaits
InitConcurrent ==
    /\ model_service = ModelService
    /\ startup = "complete"
    /\ SessionInit
    /\ pin = NoCall
    /\ pout = NoCall

NextConcurrent ==
    \/ \E s \in Sessions, accepted \in BOOLEAN : WsConnect(s, accepted)
    \/ \E s \in Sessions, data \in FewMessages, env \in FewEnvs :
            frame_count[s] < MaxConcFrames /\ WsReceive(s, data, env)
    \/ \E s \in Sessions : WsSend(s)
    \/ \E s \in Sessions, e \in FewExceptions : WsSendFail(s, e)
    \/ \E s \in Sessions, e \in FewExceptions : WsReceiveFail(s, e)

SpecConcurrent == InitConcurrent /\ [][NextConcurrent]_vars

\* The HTTP endpoints: GET /health and POST /upload-image
NextUpload ==
    \/ Health
    \/ \E load_fails \in BOOLEAN : startup_event(load_fails)
    \/ \E file \in Uploads : UploadBegin(file)
    \/ \E env \in UploadEnvs : UploadResume(env)

SpecUpload == Init /\ [][NextUpload]_vars

-----------------------------------------------------------------------------
(* The functions of ModelService applied to drawn inputs *)

\* Masks handed to overlay_mask: 2D, or 3-channel ones to be flattened
Masks == Arrays2D \cup Arrays3D(3)

InitPipeline ==
    /\ model_service = ModelService
    /\ startup = "complete"
    /\ SessionInit
    /\ pin \in { [fn |-> "args", image |-> a] : a \in Images }
    /\ pout = NoCall

NotSessions == <<model_service, pc, frame_count, outbox, sent, received,
                 active_connections, http, reading, exit_exception,
                 startup, health, model_input>>

CallPreprocess ==
    /\ pout' = [fn |-> "preprocess_image", image |-> pin.image,
                res |-> preprocess_image(pin.image)]
    /\ UNCHANGED <<NotSessions, pin>>

CallPostprocess(output) ==
    /\ pout' = [fn |-> "postprocess_output", output |-> output,
                original_shape |-> pin.image.shape,
                res |-> postprocess_output(output, pin.image.shape)]
    /\ UNCHANGED <<NotSessions, pin>>

CallOverlay(mask) ==
    /\ pout' = [fn |-> "overlay_mask", image |-> pin.image, mask |-> mask,
                res |-> overlay_mask(pin.image, mask)]
    /\ UNCHANGED <<NotSessions, pin>>

CallProcessImage(env) ==
    /\ pout' = [fn |-> "process_image", image |-> pin.image, env |-> env,
                res |-> process_image(pin.image, env)]
    /\ UNCHANGED <<NotSessions, pin>>

\* decode_base64_to_image on the PNG of the image (when it has one) or on
\* bytes that are no image, behind any prefix
CallDecode(text) ==
    /\ pout' = [fn |-> "decode_base64_to_image", text |-> text,
                res |-> decode_base64_to_image(text)]
    /\ UNCHANGED <<NotSessions, pin>>

NextPipeline ==
    \/ CallPreprocess
    \/ \E text \in [prefix : Prefixes,
                     body : {NotAnImage} \cup
                            { Png(a) : a \in {pin.image} \cap PngImages }] :
            CallDecode(text)
    \/ \E output \in ScoreMaps : CallPostprocess(output)
    \/ \E mask \in Masks : CallOverlay(mask)
    \/ \E env \in Envs : CallProcessImage(env)

SpecPipeline == InitPipeline /\ [][NextPipeline]_vars

-----------------------------------------------------------------------------
(* Vocabulary of the properties *)

Open(s) == pc[s] \in {"receive", "send"}

Last(q) == q[Len(q)]

\* A well-formed frame: a JSON object whose "image" is a base64 text or data
\* URL of an image
WellFormedFrame(data) ==
    /\ data.json
    /\ data.value.jtype = "object"
    /\ data.value.has_image
    /\ data.value.image.jtype = "string"
    /\ ~data.value.image.empty
    /\ data.value.image.text.body.valid

\* The loop was left on a signal of the transport or on the cancellation of
\* the session's task (or was never entered)
TransportExit(s) == exit_exception[s] \in AwaitExceptions \cup {"HandshakeError"}

\* r is the error response the inner handler sent in place of a successful
\* response whose send_text raised
ReportsSendFailure(r) ==
    \E e \in TransportExceptions : r = ProcessingFailed(e, r.frame_number)

\* No send_text of the session has raised inside the inner try
SendsSucceeded(s) ==
    /\ pc[s] = "send" => ~("frame_number" \in DOMAIN outbox[s] /\ ReportsSendFailure(outbox[s]))
    /\ \A i \in 1..Len(sent[s]) :
          ~("frame_number" \in DOMAIN sent[s][i] /\ ReportsSendFailure(sent[s][i]))

HasFrameNumber(r, n) == "frame_number" \in DOMAIN r /\ r.frame_number = n

\* What the pipeline can do with the image of a well-formed frame
PipelineOutcomes(data) ==
    LET image_np == decode_base64_to_image(strip_data_url(data.value.image.text))
    IN  { call_process_image(svc, image_np.val, env) :
            svc \in {None, ModelService}, env \in WsEnvs }

\* r answers message data: failed for text that is no JSON; for a
\* well-formed frame, successful when the pipeline succeeded and carrying
\* the pipeline's error when it failed
Answers(data, r) ==
    /\ ~data.document => r.success = FALSE
    /\ WellFormedFrame(data) =>
         \E o \in PipelineOutcomes(data) :
            \/ o.ok /\ r.success = TRUE
            \/ ~o.ok /\ r.success = FALSE /\ r.error = "Processing failed: " \o o.err
    /\ r.success = TRUE => WellFormedFrame(data)

-----------------------------------------------------------------------------
(* Streaming session *)

\* C1: every received message, whatever its content, is answered (with
\* success:false when it is no well-formed frame or the model service is
\* absent) and leaves the session Open; the loop is left only on a
\* transport-level disconnect or error.
C1_EveryMessageAnswered ==
    \A s \in Sessions :
        /\ pc[s] = "closed" => TransportExit(s)
        /\ (pc[s] = "send"
              /\ (~WellFormedFrame(Last(received[s])) \/ model_service = None))
             => outbox[s].success = FALSE

\* C2: every response of a session, successful or failed, carries
\* frame_number equal to the number of messages received so far.
C2_FrameNumberInEveryResponse ==
    \A s \in Sessions :
        /\ pc[s] = "send" => HasFrameNumber(outbox[s], Len(received[s]))
        /\ \A i \in 1..Len(sent[s]) : HasFrameNumber(sent[s][i], i)

\* Every message of the session is a well-formed frame or text that is no
\* JSON document
OnlyFramesAndGarbage(s) ==
    \A i \in 1..Len(received[s]) :
        ~received[s][i].document \/ WellFormedFrame(received[s][i])

\* C3: on a session that received only well-formed frames and unparseable
\* texts, and on which no send has failed, there is exactly one response per
\* message, response n is sent before message n+1 is received, response n
\* fails for an unparseable text and succeeds for a well-formed frame whose
\* pipeline run succeeded, and the session is Open after the last response.
C3_OneResponsePerMessageInOrder ==
    \A s \in Sessions :
        (OnlyFramesAndGarbage(s) /\ SendsSucceeded(s)) =>
            /\ pc[s] = "receive" => Len(sent[s]) = Len(received[s])
            /\ pc[s] = "send" => /\ Len(sent[s]) = Len(received[s]) - 1
                                 /\ Answers(Last(received[s]), outbox[s])
            /\ pc[s] = "closed" => /\ TransportExit(s)
                                   /\ Len(received[s]) - Len(sent[s]) \in {0, 1}
            /\ \A i \in 1..Len(sent[s]) : Answers(received[s][i], sent[s][i])

C4_Inv ==
    \A s \in Sessions :
        /\ pc[s] = "idle" => frame_count[s] = 0
        /\ frame_count[s] = Len(received[s])

C4_Step ==
    \A s \in Sessions :
        /\ Len(received'[s]) - Len(received[s]) \in {0, 1}
        /\ frame_count'[s] = frame_count[s] + (Len(received'[s]) - Len(received[s]))
        /\ (\E t \in Sessions \ {s} : pc'[t] # pc[t] \/ received'[t] # received[t])
              => /\ frame_count'[s] = frame_count[s]
                 /\ pc'[s] = pc[s]

\* C4: under any interleaving of several sessions, a session's frame_count
\* starts at 0, grows by exactly 1 with each message received on that
\* session, and an event of another session (receive, failure, disconnect,
\* transport error) changes neither its frame_count nor whether it is Open.
C4_SessionsIndependent == []C4_Inv /\ [][C4_Step]_vars

\* one session ended by the transport after a frame, another still Open with
\* a different count
C4_Witness ==
    \E s, t \in Sessions :
        /\ s # t
        /\ pc[s] = "closed" /\ exit_exception[s] \in TransportExceptions
        /\ frame_count[s] = 1
        /\ Open(t) /\ frame_count[t] = 0

-----------------------------------------------------------------------------
(* Frame pipeline *)

\* C5: process_image enters its stages in the order preprocess, inference,
\* postprocess, overlay; when a stage raises, no later stage is entered, the
\* caller gets that stage's error and no result, not even a partial one; a
\* result (mask, overlay, processing_time) comes only after all four stages.
C5_AllOrNothing ==
    pout.fn = "process_image" =>
        LET r == pout.res
            e == pout.env
            pre == preprocess_image(pout.image)
        IN  /\ \E k \in 1..Len(AllStages) : r.stages = SubSeq(AllStages, 1, k)
            /\ r.ok => /\ r.stages = AllStages
                       /\ DOMAIN r.val = {"mask", "overlay", "processing_time"}
                       /\ "err" \notin DOMAIN r
                       /\ e.fault = "none" /\ pre.ok
            /\ ~r.ok => "val" \notin DOMAIN r /\ "err" \in DOMAIN r
            /\ (~pre.ok /\ e.fault # "preprocess")
                  => ~r.ok /\ r.stages = <<"preprocess">> /\ r.err = pre.err
            /\ (e.fault # "none" /\ (pre.ok \/ e.fault = "preprocess"))
                  => ~r.ok /\ Last(r.stages) = e.fault /\ r.err = "MemoryError"

\* the last stage raised after the mask was computed: nothing is returned
C5_Witness ==
    /\ pout.fn = "process_image"
    /\ pout.env.fault = "overlay"
    /\ pout.res.stages = AllStages
    /\ ~pout.res.ok

ValidImage(a) == Ndim(a) = 2 \/ (Ndim(a) = 3 /\ a.shape[3] \in 1..3)

\* C7: for every valid image (2D, or 3D with one to three channels, any
\* height and width) preprocess_image yields a tensor of shape
\* (1, 3, 560, 690).
C7_PreprocessShape ==
    (pout.fn = "preprocess_image" /\ ValidImage(pout.image))
        => /\ pout.res.ok
           /\ pout.res.val.shape = <<1, 3, image_height, image_width>>

\* C8: postprocess_output returns, for a (1,1,560,690) score map and any
\* original shape, a 2D mask of the original height and width with values
\* in 0..255, resized or not; in a successful process_image result the mask
\* has the image's height and width and the overlay the image's shape.
C8_MaskHasOriginalShape ==
    /\ pout.fn = "postprocess_output" =>
          /\ pout.res.ok
          /\ Len(pout.res.val.shape) = 2
          /\ pout.res.val.shape = Prefix2(pout.original_shape)
          /\ pout.res.val.px[1] \in 0..255
    /\ (pout.fn = "process_image" /\ pout.res.ok) =>
          /\ pout.res.val.mask.shape = Prefix2(pout.image.shape)
          /\ pout.res.val.mask.px[1] \in 0..255
          /\ pout.res.val.overlay.shape = pout.image.shape

\* a mask resized to an original taller and narrower than the score map
C8_Witness ==
    /\ pout.fn = "postprocess_output"
    /\ pout.original_shape[1] > image_height
    /\ pout.original_shape[2] < image_width
    /\ pout.res.ok
    /\ pout.res.val.shape = <<pout.original_shape[1], pout.original_shape[2]>>

\* C9: overlay_mask returns an overlay only when the mask's height and width
\* equal the image's; any other pair raises.
C9_OverlayNeedsEqualDims ==
    (pout.fn = "overlay_mask" /\ pout.res.ok)
        => Prefix2(pout.mask.shape) = Prefix2(pout.image.shape)

-----------------------------------------------------------------------------
(* HTTP upload and the wire format *)

\* C6: /upload-image answers 400 without invoking the pipeline when the
\* content type is missing or does not start with "image/" or the bytes are
\* no image, 500 on a pipeline failure or an unavailable service, and
\* success with the three images only when the whole pipeline completed.
C6_UploadStatusCodes ==
    http # NoResponse =>
        LET f == http.file
            r == http.reply
            bad_type == ~f.content_type.present
                            \/ ~startswith_image(f.content_type.value)
        IN  /\ bad_type =>
                 r.status_code = 400 /\ r.content.success = FALSE /\ ~r.invoked
            /\ (~bad_type /\ ~f.contents.valid /\ http.service # None) =>
                 r.status_code = 400 /\ r.content.success = FALSE /\ ~r.invoked
            /\ (~bad_type /\ http.service = None) =>
                 r.status_code = 500 /\ r.content.success = FALSE
            /\ (~bad_type /\ f.contents.valid /\ http.service # None
                  /\ r.content.success = FALSE) =>
                 r.status_code = 500 /\ r.invoked
            /\ r.content.success = TRUE =>
                 /\ r.status_code = 200
                 /\ DOMAIN r.content = {"success", "original_image",
                                        "segmentation_mask", "overlay"}
                 /\ r.invoked
                 /\ \E env \in UploadEnvs :
                       process_image(np_array(Image_open(f.contents).val), env).ok

\* the R,G,B samples a client reads from the PNG behind a base64 text
WirePx(text) == text.body.png.px

\* C10: the 3-channel images of a response are in RGB order on the wire on
\* both entry paths: the red and blue samples read back are the red and blue
\* samples of the image sent (halved by the blend in the overlay).
C10_RgbOnTheWire ==
    /\ (http # NoResponse /\ http.reply.content.success = TRUE) =>
          LET px == http.file.contents.png.px
              c == http.reply.content
          IN  /\ WirePx(c.original_image)[1] = px[1]
              /\ WirePx(c.original_image)[3] = px[3]
              /\ WirePx(c.overlay)[1] = addWeighted_half(px[1], 0)
              /\ WirePx(c.overlay)[3] = addWeighted_half(px[3], 0)
    /\ \A s \in Sessions : \A i \in 1..Len(sent[s]) :
          sent[s][i].success = TRUE =>
             LET px == received[s][i].value.image.text.body.png.px
             IN  /\ WirePx(sent[s][i].overlay)[1] = addWeighted_half(px[1], 0)
                 /\ WirePx(sent[s][i].overlay)[3] = addWeighted_half(px[3], 0)

-----------------------------------------------------------------------------
(* Health endpoint *)

C11_Inv ==
    health # NoResponse =>
        /\ health.reply.status = "healthy"
        /\ health.reply.model_loaded = (health.startup = "complete")

C11_Step ==
    /\ health_check(model_service).model_loaded
            => health_check(model_service').model_loaded
    /\ (health # NoResponse /\ health.reply.model_loaded /\ health' # health)
            => health'.reply.model_loaded

\* C11: GET /health answers status "healthy" with model_loaded true exactly
\* when the startup load has completed successfully: false while the
\* startup hook is pending or after it failed, and once a request has been
\* answered true no later request is answered false.
C11_HealthReportsModelLoaded == []C11_Inv /\ [][C11_Step]_vars

\* A /health request answered true after a successful load.
C11_Witness ==
    /\ health # NoResponse
    /\ health.startup = "complete"
    /\ health.reply.model_loaded
    /\ model_service = ModelService

-----------------------------------------------------------------------------
(* Channel order of the model's input *)

\* C12: whenever a request hands a tensor to the model, its three samples
\* are in R,G,B order, that is in the order of the PNG the client sent,
\* whether the image came through /upload-image or through a WebSocket
\* frame.
C12_ModelInputIsRgb ==
    /\ (http # NoResponse /\ http.reply.model_input.fed)
            => http.reply.model_input.tensor.px = http.file.contents.png.px
    /\ \A s \in Sessions :
            (pc[s] = "send" /\ model_input.fed /\ WellFormedFrame(Last(received[s])))
                => model_input.tensor.px = Last(received[s]).value.image.text.body.png.px

-----------------------------------------------------------------------------
(* Timing of a run *)

\* C13: process_image reports the time the run took whatever its outcome:
\* the caller gets the elapsed time both with the result of a run that
\* completed and with the error of a run in which a stage failed.
C13_ElapsedTimeOnEveryOutcome ==
    pout.fn = "process_image" =>
        LET r == pout.res
        IN  /\ r.ok => /\ "processing_time" \in DOMAIN r.val
                       /\ r.val.processing_time = pout.env.elapsed
            /\ ~r.ok => /\ "processing_time" \in DOMAIN r
                        /\ r.processing_time = pout.env.elapsed

-----------------------------------------------------------------------------
(* Connection registry *)

Registered(l, s) == \E i \in 1..Len(l) : l[i] = s

\* C14: over any interleaving of connects, messages, per-frame failures,
\* disconnects and transport errors of several clients,
\* manager.active_connections contains exactly the sessions whose receive
\* loop is Open, each once: a session whose loop has exited, for any
\* reason, is no longer in the list.
C14_RegistryHoldsOpenSessions ==
    /\ \A s \in Sessions : Open(s) <=> Registered(active_connections, s)
    /\ \A i, j \in 1..Len(active_connections) :
            active_connections[i] = active_connections[j] => i = j

====
